---- MODULE Spec2Model ----
(***************************************************************************)
(* A model of ducky: the conversation loop of src/main.rs, the chat and    *)
(* token-generation loop of src/llm.rs, and the capture and playback       *)
(* sessions of src/audio.rs.                                               *)
(*                                                                         *)
(* Text is modelled as the sequence of its UTF-8 bytes (a Rust String is   *)
(* one).  The special markers of the prompt template, "<|...|>", are one    *)
(* unit each, written as a negative number.  The inference engine, the     *)
(* recognition engine and the audio device are external: each call to      *)
(* them is a nondeterministic choice over the results its signature        *)
(* allows (Err, or Ok of a value).                                         *)
(***************************************************************************)
EXTENDS Integers, Sequences, FiniteSets, TLC

VARIABLES
    \* src/main.rs: the loop of main
    main_pc,          \* where main is: "record", "check_empty", "transcribe", "gate", "chat", "exited"
    audio_data,       \* the buffer record_until_enter returned
    transcription,    \* the text transcribe returned
    stt_call,         \* the latest call of Stt::transcribe: who called, with what, and what it did
    \* src/llm.rs: Llm and one call of chat
    messages,         \* Llm.messages
    chat_pc,          \* where chat is: "idle", "format", ... , "ok", "err"
    user_message,     \* chat's user_message
    prompt,           \* the text format_prompt hands to str_to_token
    tokens_list,      \* chat's tokens_list / generate's input_tokens
    batch,            \* generate's batch
    decoded,          \* the batches submitted to ctx.decode, in order
    token_idx,        \* the for loop's token_idx
    end_token_idx,    \* generate's end_token_idx
    token,            \* the token just sampled
    sampled,          \* the tokens sampler.sample returned in this call, in order
    output_bytes,     \* generate's output_bytes
    output,           \* generate's output
    sink,             \* bytes written to output_stream during this call
    flushed,          \* how many bytes of sink have been flushed
    assistant_message,\* chat's assistant_message
    messages_before,  \* Llm.messages when this call of chat began
    turns,            \* calls of chat so far
    \* src/audio.rs: one playback session (Audio::playback and its OutputStream)
    out_channels,     \* output_config.channels
    session,          \* the OutputStream: "none", "live", "consumed" (stop took it)
    stream,           \* the output Stream: "none", "built", "playing", "dropped"
    playback_data,    \* the buffer the callback reads
    playback_index,   \* the read cursor, counted from 0
    finished,         \* the finished flag
    cb_left,          \* output slots the running callback has still to fill (0: no callback runs)
    device_out,       \* every sample the callback has handed to the device, in order
    wait_pc,          \* where wait is: "none", "polling", "grace", "returned"
    stop_result,      \* what stop returned: "none" (not called), "ok", "err"
    \* src/audio.rs: one call of record_until_enter and the input callback
    rec_pc,           \* where record_until_enter is: "build", "play", "read_line", "store", "drop", "snapshot", "mix", "err"
    in_stream,        \* the input Stream: "none", "built", "playing", "dropped"
    shared_audio_data,\* the Vec inside Arc<Mutex<..>> that the callback appends to
    audio_lock,       \* who holds that Mutex: "free", "callback"
    recording,        \* the recording flag
    in_pc,            \* where the input callback is: "idle", "check", "lock", "push"
    in_chunk,         \* the data of the running callback
    in_i,             \* how many samples of in_chunk the running callback has pushed
    delivered,        \* every chunk the device has delivered, in order
    recorded_data,    \* the snapshot record_until_enter took
    mono_data,        \* record_until_enter's mono_data
    resampled_data,   \* what record_until_enter returned
    \* src/audio.rs: the fields of Audio that Audio::new reads from the devices
    in_channels,      \* input_config.channels
    input_sample_rate,\* Audio.input_sample_rate
    \* src/audio.rs: one call of Audio::resample_audio
    rs_pc,            \* where resample_audio is: "idle", "loop", "done", "panicked"
    rs_audio_data,    \* its audio_data
    target_sample_rate,\* its target_sample_rate
    ratio,            \* its ratio
    output_length,    \* its output_length
    rs_i,             \* the for loop's i
    resampled,        \* its resampled
    rs_reads,         \* the indices of audio_data it has read
    \* src/audio.rs: the channel mixing of record_until_enter and of playback, applied to a buffer
    mix_pc,           \* what was applied: "start", "expanded", "mixed", "round_trip"
    mix_channels,     \* the device's channel count
    mix_in,           \* the buffer handed in
    mix_out           \* the Result: ok (false: the thread panicked) and the buffer

llm_vars == <<messages, chat_pc, user_message, assistant_message, prompt, tokens_list,
              batch, decoded, token_idx, end_token_idx, token, sampled, output_bytes, output,
              sink, flushed, messages_before, turns>>
main_vars == <<main_pc, audio_data, transcription, stt_call>>
pb_vars == <<out_channels, session, stream, playback_data, playback_index, finished,
             cb_left, device_out, wait_pc, stop_result>>
cap_vars == <<rec_pc, in_stream, shared_audio_data, audio_lock, recording, in_pc, in_chunk,
              in_i, delivered, recorded_data>>
post_vars == <<mono_data, resampled_data>>
dev_vars == <<in_channels, input_sample_rate>>
rs_vars == <<rs_pc, rs_audio_data, target_sample_rate, ratio, output_length, rs_i, resampled,
             rs_reads>>
mix_vars == <<mix_pc, mix_channels, mix_in, mix_out>>
dsp_vars == <<post_vars, dev_vars, rs_vars, mix_vars>>
vars == <<main_vars, llm_vars, pb_vars, cap_vars, dsp_vars>>

----------------------------------------------------------------------------
(* Bounds of the model *)

\* calls of chat in one run
MaxTurns == 2
\* the longest token sequence the tokenizer returns
MaxPromptTokens == 2
\* generate's max_response_length; chat passes 256 (llm.rs:101)
max_response_length == 2
\* the most channels a device has
MaxChannels == 3
\* the longest mono buffer handed to playback
MaxSamples == 3
\* the most output slots the device asks for in one callback
MaxChunk == 2
\* how many slots of silence the device is followed for
MaxSilence == 2
\* the most chunks the input device delivers
MaxDeliveries == 3
\* the most frames in one delivered chunk
MaxInChunk == 2
\* the longest of the short buffers handed to resample_audio
MaxResampleLen == 4
\* how many whole multiples of the period are handed to resample_audio
MaxPeriods == 1
\* the longest buffer handed to the channel mixing
MaxMixLen == 3

----------------------------------------------------------------------------
(* Text *)

BEGIN_OF_TEXT == -1
START_HEADER_ID == -2
END_HEADER_ID == -3
EOT_ID == -4

\* "\n"
LF == 10


\* SYSTEM_PROMPT, abbreviated to its first line break, one letter and its last line break
SYSTEM_PROMPT == <<10, 89, 10>>

RoleUser == "User"
RoleAssistant == "Assistant"
RoleSystem == "System"

\* MessageRole::to_str: "user", "assistant", "system"
to_str(role) ==
    CASE role = RoleUser -> <<117, 115, 101, 114>>
      [] role = RoleAssistant -> <<97, 115, 115, 105, 115, 116, 97, 110, 116>>
      [] role = RoleSystem -> <<115, 121, 115, 116, 101, 109>>

MessageSystem(content) == [role |-> RoleSystem, content |-> content]
MessageUser(content) == [role |-> RoleUser, content |-> content]
MessageAssistant(content) == [role |-> RoleAssistant, content |-> content]

\* Message::format
MessageFormat(m) ==
    <<START_HEADER_ID>> \o to_str(m.role) \o <<END_HEADER_ID, LF, LF>>
        \o m.content \o <<EOT_ID, LF>>

RECURSIVE JoinFormatted(_)
\* .map(|m| m.format()).collect().join("")
JoinFormatted(ms) ==
    IF ms = <<>> THEN <<>>
    ELSE MessageFormat(Head(ms)) \o JoinFormatted(Tail(ms))

\* the text rendered from the stored messages alone
PromptTextStoredOnly(stored, user) ==
    <<BEGIN_OF_TEXT>> \o JoinFormatted(stored)
        \o <<START_HEADER_ID>> \o to_str(RoleAssistant) \o <<END_HEADER_ID, LF, LF>>

\* the text format_prompt tokenizes
PromptText(stored, user) ==
    <<BEGIN_OF_TEXT>> \o JoinFormatted(stored \o <<user>>)
        \o <<START_HEADER_ID>> \o to_str(RoleAssistant) \o <<END_HEADER_ID, LF, LF>>

\* char::is_whitespace on the bytes the model uses
IsWhitespace(b) == b \in {9, 10, 11, 12, 13, 32}

RECURSIVE TrimStart(_)
TrimStart(s) ==
    IF s # <<>> /\ IsWhitespace(Head(s)) THEN TrimStart(Tail(s)) ELSE s

RECURSIVE TrimEnd(_)
TrimEnd(s) ==
    IF s # <<>> /\ IsWhitespace(s[Len(s)]) THEN TrimEnd(SubSeq(s, 1, Len(s) - 1)) ELSE s

\* str::trim
Trim(s) == TrimEnd(TrimStart(s))

IsCont(b) == b >= 128 /\ b <= 191

RECURSIVE Utf8Valid(_)
\* String::from_utf8 succeeds: the bytes are well-formed UTF-8
Utf8Valid(bs) ==
    IF bs = <<>> THEN TRUE
    ELSE LET b == Head(bs)
             n == Len(bs)
         IN  IF b <= 127 THEN Utf8Valid(Tail(bs))
             ELSE IF b >= 194 /\ b <= 223
                  THEN n >= 2 /\ IsCont(bs[2]) /\ Utf8Valid(SubSeq(bs, 3, n))
             ELSE IF b >= 224 /\ b <= 239
                  THEN /\ n >= 3
                       /\ IsCont(bs[2]) /\ IsCont(bs[3])
                       /\ (b = 224 => bs[2] >= 160)
                       /\ (b = 237 => bs[2] <= 159)
                       /\ Utf8Valid(SubSeq(bs, 4, n))
             ELSE IF b >= 240 /\ b <= 244
                  THEN /\ n >= 4
                       /\ IsCont(bs[2]) /\ IsCont(bs[3]) /\ IsCont(bs[4])
                       /\ (b = 240 => bs[2] >= 144)
                       /\ (b = 244 => bs[2] <= 143)
                       /\ Utf8Valid(SubSeq(bs, 5, n))
             ELSE FALSE

----------------------------------------------------------------------------
(* The inference engine, as far as generate sees it *)

\* model.token_eos()
token_eos == 9
\* the token AddBos::Always puts first
token_bos == 0

\* the tokens the sampler can return: "A", the two bytes of U+00E9 one per token, and end-of-sequence
SampleTokens == {1, 2, 3, token_eos}

\* model.token_to_bytes with Special::Tokenize, when it succeeds; end-of-sequence renders as "<|eot_id|>"
TokenBytes(t) ==
    CASE t = 1 -> <<65>>
      [] t = 2 -> <<195>>
      [] t = 3 -> <<169>>
      [] t = token_eos -> <<EOT_ID>>
      [] OTHER -> <<>>

\* what str_to_token can return for a text: BOS and up to MaxPromptTokens - 1 more tokens
TokenizeResults == { [i \in 1..n |-> IF i = 1 THEN token_bos ELSE 1] : n \in 1..MaxPromptTokens }

\* LlamaBatch::new(2048, 1): the number of tokens a batch holds
N_TOKENS_ALLOC == 2048

\* LlamaBatch::add: Err when the batch is full, else Ok with the token appended
BatchAdd(b, t, pos, logits) ==
    IF Len(b) + 1 > N_TOKENS_ALLOC THEN [ok |-> FALSE, batch |-> b]
    ELSE [ok |-> TRUE, batch |-> Append(b, [token |-> t, pos |-> pos, logits |-> logits])]

RECURSIVE BuildBatchFrom(_, _, _)
\* the loop of build_batch from index i on, over the Result of the adds so far
BuildBatchFrom(r, input_tokens, i) ==
    IF ~r.ok \/ i >= Len(input_tokens) THEN r
    ELSE LET last_index == Len(input_tokens) - 1
             is_last == (i = last_index)
         IN  BuildBatchFrom(BatchAdd(r.batch, input_tokens[i + 1], i, is_last),
                            input_tokens, i + 1)

\* Llm::build_batch
build_batch(input_tokens) ==
    BuildBatchFrom([ok |-> TRUE, batch |-> <<>>], input_tokens, 0)

\* batch.n_tokens()
n_tokens(b) == Len(b)

----------------------------------------------------------------------------
(* Llm::new *)

NoMessage == [role |-> "None", content |-> <<>>]

InitLlm ==
    /\ messages = <<MessageSystem(SYSTEM_PROMPT)>>
    /\ chat_pc = "idle"
    /\ user_message = NoMessage
    /\ assistant_message = NoMessage
    /\ prompt = <<>>
    /\ tokens_list = <<>>
    /\ batch = <<>>
    /\ decoded = <<>>
    /\ token_idx = 0
    /\ end_token_idx = 0
    /\ token = token_bos
    /\ sampled = <<>>
    /\ output_bytes = <<>>
    /\ output = <<>>
    /\ sink = <<>>
    /\ flushed = 0
    /\ messages_before = <<MessageSystem(SYSTEM_PROMPT)>>
    /\ turns = 0

----------------------------------------------------------------------------
(* Llm::chat, step by step *)

\* chat has returned, or was never called
ChatReturned == chat_pc \in {"idle", "ok", "err"}

\* chat returns Err: the ? of a failed call
Fail ==
    /\ chat_pc' = "err"

\* llm.rs:98-99: entry of chat
ChatBegin(message_content) ==
    /\ ChatReturned
    /\ chat_pc' = "format"
    /\ user_message' = MessageUser(message_content)
    /\ assistant_message' = NoMessage
    /\ messages_before' = messages
    /\ turns' = turns + 1
    /\ prompt' = <<>>
    /\ tokens_list' = <<>>
    /\ batch' = <<>>
    /\ decoded' = <<>>
    /\ token_idx' = 0
    /\ end_token_idx' = 0
    /\ token' = token_bos
    /\ sampled' = <<>>
    /\ output_bytes' = <<>>
    /\ output' = <<>>
    /\ sink' = <<>>
    /\ flushed' = 0
    /\ UNCHANGED messages

\* llm.rs:100, 109-129: format_prompt renders the text and tokenizes it
FormatPrompt ==
    /\ chat_pc = "format"
    /\ prompt' = PromptText(messages, user_message)
    /\ \/ \E r \in TokenizeResults :
             /\ tokens_list' = r
             /\ chat_pc' = "new_context"
       \/ Fail /\ UNCHANGED tokens_list
    /\ UNCHANGED <<messages, user_message, assistant_message, batch, decoded, token_idx,
                   end_token_idx, token, sampled, output_bytes, output, sink,
                   flushed, messages_before, turns>>

\* llm.rs:151-154: model.new_context
NewContext ==
    /\ chat_pc = "new_context"
    /\ \/ chat_pc' = "prefill"
       \/ Fail
    /\ UNCHANGED <<messages, user_message, assistant_message, prompt, tokens_list, batch,
                   decoded, token_idx, end_token_idx, token, sampled,
                   output_bytes, output, sink, flushed, messages_before, turns>>

\* the range taken inclusive of its end, as start..=end would
EndTokenIdxInclusive(start_token_idx) == start_token_idx + max_response_length + 1

\* llm.rs:161: end_token_idx
EndTokenIdx(start_token_idx) == start_token_idx + max_response_length

\* llm.rs:156-164: build the prompt's batch, decode it, set the loop's range
Prefill ==
    /\ chat_pc = "prefill"
    /\ LET built == build_batch(tokens_list)
       IN  IF ~built.ok
           THEN Fail /\ UNCHANGED <<batch, decoded, token_idx, end_token_idx>>
           ELSE /\ batch' = built.batch
                /\ decoded' = Append(decoded, built.batch)
                /\ \/ /\ token_idx' = n_tokens(built.batch)
                      /\ end_token_idx' = EndTokenIdx(n_tokens(built.batch))
                      /\ chat_pc' = "loop"
                   \/ Fail /\ UNCHANGED <<token_idx, end_token_idx>>
    /\ UNCHANGED <<messages, user_message, assistant_message, prompt, tokens_list, token,
                   sampled, output_bytes, output, sink, flushed,
                   messages_before, turns>>

\* llm.rs:166: the range start_token_idx..end_token_idx has a next element
LoopContinues == token_idx < end_token_idx

\* the end-of-sequence test left out
IsEosNever(t) == FALSE

\* llm.rs:169: the sampled token ends the reply
IsEos(t) == t = token_eos

\* llm.rs:166-171: the loop takes its next index, samples a token and tests it for EOS
Sample ==
    /\ chat_pc = "loop"
    /\ LoopContinues
    /\ \E t \in SampleTokens :
          /\ token' = t
          /\ sampled' = Append(sampled, t)
          /\ chat_pc' = IF IsEos(t) THEN "from_utf8" ELSE "to_bytes"
    /\ UNCHANGED <<messages, user_message, assistant_message, prompt, tokens_list, batch,
                   decoded, token_idx, end_token_idx, output_bytes, output, sink, flushed,
                   messages_before, turns>>

\* llm.rs:166: the range is exhausted
LoopExhausted ==
    /\ chat_pc = "loop"
    /\ ~LoopContinues
    /\ chat_pc' = "from_utf8"
    /\ UNCHANGED <<messages, user_message, assistant_message, prompt, tokens_list, batch,
                   decoded, token_idx, end_token_idx, token, sampled,
                   output_bytes, output, sink, flushed, messages_before, turns>>

\* llm.rs:173-176: model.token_to_bytes
TokenToBytes ==
    /\ chat_pc = "to_bytes"
    /\ \/ /\ output_bytes' = TokenBytes(token)
          /\ chat_pc' = "write"
       \/ Fail /\ UNCHANGED output_bytes
    /\ UNCHANGED <<messages, user_message, assistant_message, prompt, tokens_list, batch,
                   decoded, token_idx, end_token_idx, token, sampled, output,
                   sink, flushed, messages_before, turns>>

\* llm.rs:178: output_stream.write_all; a failing write_all may have written a proper prefix
WriteAll ==
    /\ chat_pc = "write"
    /\ \/ /\ sink' = sink \o output_bytes
          /\ chat_pc' = "flush"
       \/ \E k \in 0..(Len(output_bytes) - 1) :
             /\ sink' = sink \o SubSeq(output_bytes, 1, k)
             /\ Fail
    /\ UNCHANGED <<messages, user_message, assistant_message, prompt, tokens_list, batch,
                   decoded, token_idx, end_token_idx, token, sampled,
                   output_bytes, output, flushed, messages_before, turns>>

\* the reply left without the bytes just written
ExtendFromSliceNothing(out, bytes) == out

\* llm.rs:180: output.extend_from_slice(&output_bytes)
ExtendFromSlice(out, bytes) == out \o bytes

\* llm.rs:179-180: output_stream.flush, then output.extend_from_slice
Flush ==
    /\ chat_pc = "flush"
    /\ \/ /\ flushed' = Len(sink)
          /\ output' = ExtendFromSlice(output, output_bytes)
          /\ chat_pc' = "decode"
       \/ Fail /\ UNCHANGED <<flushed, output>>
    /\ UNCHANGED <<messages, user_message, assistant_message, prompt, tokens_list, batch,
                   decoded, token_idx, end_token_idx, token, sampled,
                   output_bytes, sink, messages_before, turns>>

\* the add without the clear before it
NextBatchNoClear(t, idx) == BatchAdd(batch, t, idx, TRUE)

\* llm.rs:182-185: batch.clear() and batch.add(token, token_idx, &[0], true)
NextBatch(t, idx) == BatchAdd(<<>>, t, idx, TRUE)

\* llm.rs:182-188: the one-token batch is built and decoded; the loop steps to the next index
Decode ==
    /\ chat_pc = "decode"
    /\ LET added == NextBatch(token, token_idx)
       IN  IF ~added.ok
           THEN Fail /\ batch' = <<>> /\ UNCHANGED <<decoded, token_idx>>
           ELSE /\ batch' = added.batch
                /\ decoded' = Append(decoded, added.batch)
                /\ \/ /\ token_idx' = token_idx + 1
                      /\ chat_pc' = "loop"
                   \/ Fail /\ UNCHANGED token_idx
    /\ UNCHANGED <<messages, user_message, assistant_message, prompt, tokens_list,
                   end_token_idx, token, sampled, output_bytes, output, sink,
                   flushed, messages_before, turns>>

\* llm.rs:190-192: String::from_utf8 and the reply; generate returns
FromUtf8 ==
    /\ chat_pc = "from_utf8"
    /\ IF Utf8Valid(output)
       THEN /\ assistant_message' = MessageAssistant(output)
            /\ chat_pc' = "push"
       ELSE Fail /\ UNCHANGED assistant_message
    /\ UNCHANGED <<messages, user_message, prompt, tokens_list, batch, decoded, token_idx,
                   end_token_idx, token, sampled, output_bytes, output, sink,
                   flushed, messages_before, turns>>

\* the first push alone
PushTurnUserOnly(ms, user, assistant) == Append(ms, user)

\* the two pushes in the other order
PushTurnSwapped(ms, user, assistant) == Append(Append(ms, assistant), user)

\* llm.rs:103-104: the two pushes of chat
PushTurn(ms, user, assistant) == Append(Append(ms, user), assistant)

\* llm.rs:103-106: chat stores the turn and returns Ok
ChatPush ==
    /\ chat_pc = "push"
    /\ messages' = PushTurn(messages, user_message, assistant_message)
    /\ chat_pc' = "ok"
    /\ UNCHANGED <<user_message, assistant_message, prompt, tokens_list, batch, decoded,
                   token_idx, end_token_idx, token, sampled, output_bytes,
                   output, sink, flushed, messages_before, turns>>

\* the steps of one call of chat after its entry
ChatStep ==
    \/ FormatPrompt
    \/ NewContext
    \/ Prefill
    \/ Sample
    \/ LoopExhausted
    \/ TokenToBytes
    \/ WriteAll
    \/ Flush
    \/ Decode
    \/ FromUtf8
    \/ ChatPush

----------------------------------------------------------------------------
(* Floating-point arithmetic: Rust's f32 and f64 are IEEE 754 binary32 and    *)
(* binary64, every operation rounded to nearest, ties to even.  A finite      *)
(* value is neg, m, e, standing for m * 2^e (negated when neg), with m odd, or *)
(* m zero and e zero.  m is a natural number of any size, written as the       *)
(* sequence of its digits in base LIMB, lowest first, without leading zeros.   *)

\* the base of the digits of a natural number
LIMB == 2 ^ 15
\* the bits of one digit
LIMB_BITS == CHOOSE k \in 1..30 : 2 ^ k = LIMB

Max(a, b) == IF a >= b THEN a ELSE b
Min(a, b) == IF a <= b THEN a ELSE b

RECURSIVE BStrip(_)
\* a without leading zero digits
BStrip(a) ==
    IF a # <<>> /\ a[Len(a)] = 0 THEN BStrip(SubSeq(a, 1, Len(a) - 1)) ELSE a

RECURSIVE BFromInt(_)
\* the natural number n
BFromInt(n) == IF n = 0 THEN <<>> ELSE <<n % LIMB>> \o BFromInt(n \div LIMB)

RECURSIVE BToInt(_)
\* a as an integer, for an a that fits one
BToInt(a) == IF a = <<>> THEN 0 ELSE a[1] + LIMB * BToInt(Tail(a))

\* the i-th digit of a
Limb(a, i) == IF i <= Len(a) THEN a[i] ELSE 0

RECURSIVE BCmpAt(_, _, _)
BCmpAt(a, b, i) ==
    IF i = 0 THEN 0
    ELSE IF Limb(a, i) > Limb(b, i) THEN 1
    ELSE IF Limb(a, i) < Limb(b, i) THEN -1
    ELSE BCmpAt(a, b, i - 1)

\* 1, 0 or -1 as a is greater than, equal to or less than b
BCmp(a, b) == BCmpAt(a, b, Max(Len(a), Len(b)))

RECURSIVE BAddC(_, _, _, _)
BAddC(a, b, i, c) ==
    IF i > Max(Len(a), Len(b)) THEN (IF c = 0 THEN <<>> ELSE <<c>>)
    ELSE LET s == Limb(a, i) + Limb(b, i) + c
         IN  <<s % LIMB>> \o BAddC(a, b, i + 1, s \div LIMB)

\* a + b
BAdd(a, b) == BAddC(a, b, 1, 0)

RECURSIVE BSubC(_, _, _, _)
BSubC(a, b, i, c) ==
    IF i > Len(a) THEN <<>>
    ELSE LET d == Limb(a, i) - Limb(b, i) - c
         IN  <<(d + LIMB) % LIMB>> \o BSubC(a, b, i + 1, IF d < 0 THEN 1 ELSE 0)

\* a - b, for a >= b
BSub(a, b) == BStrip(BSubC(a, b, 1, 0))

RECURSIVE BMulSmallC(_, _, _, _)
BMulSmallC(a, d, i, c) ==
    IF i > Len(a) THEN (IF c = 0 THEN <<>> ELSE <<c>>)
    ELSE LET p == a[i] * d + c
         IN  <<p % LIMB>> \o BMulSmallC(a, d, i + 1, p \div LIMB)

\* a * d, for a digit d
BMulSmall(a, d) == IF d = 0 THEN <<>> ELSE BMulSmallC(a, d, 1, 0)

\* a * LIMB^q
BShlLimbs(a, q) == IF a = <<>> THEN <<>> ELSE [i \in 1..q |-> 0] \o a

RECURSIVE BMul(_, _)
\* a * b
BMul(a, b) ==
    IF b = <<>> THEN <<>>
    ELSE BAdd(BMulSmall(a, b[1]), BShlLimbs(BMul(a, Tail(b)), 1))

\* a * 2^k
BShl(a, k) == BShlLimbs(BMulSmall(a, 2 ^ (k % LIMB_BITS)), k \div LIMB_BITS)

\* a \div 2^k
BShr(a, k) ==
    LET q == k \div LIMB_BITS
        r == k % LIMB_BITS
        n == Len(a) - q
    IN  IF n <= 0 THEN <<>>
        ELSE BStrip([i \in 1..n |->
                 (a[q + i] \div 2 ^ r) + (Limb(a, q + i + 1) % 2 ^ r) * 2 ^ (LIMB_BITS - r)])

\* the lowest k bits of a are all zero
BLowZero(a, k) ==
    /\ \A i \in 1..Min(k \div LIMB_BITS, Len(a)) : a[i] = 0
    /\ Limb(a, k \div LIMB_BITS + 1) % 2 ^ (k % LIMB_BITS) = 0

\* bit k of a, bit 0 the lowest
BBit(a, k) == (Limb(a, k \div LIMB_BITS + 1) \div 2 ^ (k % LIMB_BITS)) % 2

\* the number of bits of the digit n: 0 for zero
IntBitLen(n) == CHOOSE k \in 0..LIMB_BITS : n < 2 ^ k /\ (k = 0 \/ n >= 2 ^ (k - 1))

\* the number of bits of a: 0 for zero
BBitLen(a) == IF a = <<>> THEN 0 ELSE LIMB_BITS * (Len(a) - 1) + IntBitLen(a[Len(a)])

\* the number of zero bits below the lowest one bit of the nonzero digit n, added to k
BTrailingZeroBits(n, k) ==
    k + (CHOOSE t \in 0..(LIMB_BITS - 1) : n % 2 ^ t = 0 /\ n % 2 ^ (t + 1) # 0)

RECURSIVE BTrailingZeros(_, _)
\* the number of zero bits of a nonzero a below its lowest one bit, from digit j on
BTrailingZeros(a, j) ==
    IF a[j] = 0 THEN BTrailingZeros(a, j + 1)
    ELSE BTrailingZeroBits(a[j], LIMB_BITS * (j - 1))

\* an estimate of the quotient of r by b, for b > 0 and r < b * LIMB, from the two
\* highest digits of r and the highest digit of b, after both are shifted to have the
\* highest bit of that digit of b set: the quotient or up to two more
BDivEstimate(r, b) ==
    LET sh == LIMB_BITS - IntBitLen(b[Len(b)])
        bn == BShl(b, sh)
        rn == BShl(r, sh)
        n == Len(b)
    IN  Min((Limb(rn, n + 1) * LIMB + Limb(rn, n)) \div bn[n], LIMB - 1)

RECURSIVE BDivDigit(_, _, _)
\* the largest digit not above d whose product with b is not above r
BDivDigit(r, b, d) ==
    IF BCmp(BMulSmall(b, d), r) > 0 THEN BDivDigit(r, b, d - 1) ELSE d

RECURSIVE BDivLong(_, _, _, _, _)
\* long division of a by b over the digits j down to 1 of a, from the remainder r and
\* the quotient digits q of the digits above them
BDivLong(a, b, j, r, q) ==
    IF j = 0 THEN [q |-> BStrip(q), r |-> r]
    ELSE LET r2 == BStrip(<<a[j]>> \o r)
             d == BDivDigit(r2, b, BDivEstimate(r2, b))
         IN  IF d = 0 THEN BDivLong(a, b, j - 1, r2, <<0>> \o q)
             ELSE BDivLong(a, b, j - 1, BSub(r2, BMulSmall(b, d)), <<d>> \o q)

\* quotient q and remainder r of a by b, for b > 0: the highest Len(b) - 1 digits of a
\* are less than b and give no quotient digit
BDivMod(a, b) ==
    LET j == Max(0, Len(a) - Len(b) + 1)
    IN  BDivLong(a, b, j, SubSeq(a, j + 1, Len(a)), <<>>)

\* binary64: 53 bits of precision, largest exponent 1023, lowest bit of a subnormal 2^-1074
F64 == [p |-> 53, emax |-> 1023, qmin |-> -1074]
\* binary32: 24 bits of precision, largest exponent 127, lowest bit of a subnormal 2^-149
F32 == [p |-> 24, emax |-> 127, qmin |-> -149]

NaN == [cls |-> "nan", neg |-> FALSE, m |-> <<>>, e |-> 0]
Inf(neg) == [cls |-> "inf", neg |-> neg, m |-> <<>>, e |-> 0]
Zero(neg) == [cls |-> "fin", neg |-> neg, m |-> <<>>, e |-> 0]

IsZero(x) == x.cls = "fin" /\ x.m = <<>>

\* the finite value m * 2^e in the form with m odd
Canon(neg, m, e) ==
    IF m = <<>> THEN Zero(neg)
    ELSE LET tz == BTrailingZeros(m, 1)
         IN  [cls |-> "fin", neg |-> neg, m |-> BShr(m, tz), e |-> e + tz]

\* the value of format fmt nearest to m * 2^e, ties to even; sticky says that the exact
\* value is a little above m * 2^e, by less than 2^e
RoundTo(fmt, neg, m, e, sticky) ==
    LET s == Max(BBitLen(m) - fmt.p, fmt.qmin - e)
        q == IF s > 0 THEN BShr(m, s) ELSE m
        up == /\ s > 0
              /\ BBit(m, s - 1) = 1
              /\ (~BLowZero(m, s - 1) \/ sticky \/ BBit(q, 0) = 1)
        q2 == IF up THEN BAdd(q, <<1>>) ELSE q
        e2 == IF s > 0 THEN e + s ELSE e
    IN  IF BBitLen(q2) + e2 > fmt.emax + 1 THEN Inf(neg) ELSE Canon(neg, q2, e2)

FNeg(x) == [x EXCEPT !.neg = IF x.cls = "nan" THEN FALSE ELSE ~x.neg]

\* x + y in format fmt
FAdd(fmt, x, y) ==
    IF x.cls = "nan" \/ y.cls = "nan" THEN NaN
    ELSE IF x.cls = "inf" THEN (IF y.cls = "inf" /\ y.neg # x.neg THEN NaN ELSE x)
    ELSE IF y.cls = "inf" THEN y
    ELSE IF IsZero(x) /\ IsZero(y) THEN Zero(x.neg /\ y.neg)
    ELSE LET e == Min(x.e, y.e)
             a == BShl(x.m, x.e - e)
             b == BShl(y.m, y.e - e)
             c == BCmp(a, b)
         IN  IF x.neg = y.neg THEN RoundTo(fmt, x.neg, BAdd(a, b), e, FALSE)
             ELSE IF c = 0 THEN Zero(FALSE)
             ELSE IF c > 0 THEN RoundTo(fmt, x.neg, BSub(a, b), e, FALSE)
             ELSE RoundTo(fmt, y.neg, BSub(b, a), e, FALSE)

\* x - y in format fmt
FSub(fmt, x, y) == FAdd(fmt, x, FNeg(y))

\* x * y in format fmt
FMul(fmt, x, y) ==
    IF x.cls = "nan" \/ y.cls = "nan" THEN NaN
    ELSE IF x.cls = "inf" \/ y.cls = "inf"
         THEN (IF IsZero(x) \/ IsZero(y) THEN NaN ELSE Inf(x.neg # y.neg))
    ELSE RoundTo(fmt, x.neg # y.neg, BMul(x.m, y.m), x.e + y.e, FALSE)

\* x / y in format fmt
FDiv(fmt, x, y) ==
    IF x.cls = "nan" \/ y.cls = "nan" THEN NaN
    ELSE IF x.cls = "inf" THEN (IF y.cls = "inf" THEN NaN ELSE Inf(x.neg # y.neg))
    ELSE IF y.cls = "inf" THEN Zero(x.neg # y.neg)
    ELSE IF IsZero(y) THEN (IF IsZero(x) THEN NaN ELSE Inf(x.neg # y.neg))
    ELSE IF IsZero(x) THEN Zero(x.neg # y.neg)
    ELSE LET k == Max(0, fmt.p + 2 + BBitLen(y.m) - BBitLen(x.m))
             d == BDivMod(BShl(x.m, k), y.m)
         IN  RoundTo(fmt, x.neg # y.neg, d.q, x.e - y.e - k, d.r # <<>>)

\* n as f32 or f64: exact when n has no more bits than the format's precision
FFromInt(fmt, n) == RoundTo(fmt, n < 0, BFromInt(IF n < 0 THEN -n ELSE n), 0, FALSE)

\* x as f32, for an f64 x
AsF32(x) == IF x.cls = "fin" THEN RoundTo(F32, x.neg, x.m, x.e, FALSE) ELSE x

\* f64::floor
Floor(x) ==
    IF x.cls # "fin" \/ x.e >= 0 THEN x
    ELSE LET t == BShr(x.m, -x.e)
         IN  IF x.neg THEN Canon(TRUE, BAdd(t, <<1>>), 0) ELSE Canon(FALSE, t, 0)

\* usize::MAX, scaled to the numbers of the model: larger than any length or index in it
USIZE_MAX == 2 ^ 30

\* x as usize: toward zero, saturating, NaN to 0
AsUsize(x) ==
    IF x.cls = "nan" THEN 0
    ELSE IF x.neg THEN 0
    ELSE IF x.cls = "inf" THEN USIZE_MAX
    ELSE IF x.e >= 0
         THEN (IF BBitLen(x.m) + x.e > 30 THEN USIZE_MAX ELSE BToInt(BShl(x.m, x.e)))
    ELSE IF BBitLen(x.m) + x.e > 30 THEN USIZE_MAX ELSE BToInt(BShr(x.m, -x.e))

----------------------------------------------------------------------------
(* Channel mixing: the downmix of record_until_enter, the expansion of playback *)

\* the f32 of the whole number n
F32Of(n) == FFromInt(F32, n)

\* f32::MAX
F32_MAX == [cls |-> "fin", neg |-> FALSE, m |-> BFromInt(2 ^ 24 - 1), e |-> 104]

\* the sum of the pair, not halved
AverageSum(a, b) == FAdd(F32, a, b)

\* audio.rs:133: (chunk[0] + chunk[1]) / 2.0
Average(a, b) == FDiv(F32, FAdd(F32, a, b), F32Of(2))

\* audio.rs:132: chunks(2): consecutive pairs, and a last chunk of one sample when the
\* length is odd
Chunks2(data) ==
    [k \in 1..((Len(data) + 1) \div 2) |-> SubSeq(data, 2 * k - 1, Min(2 * k, Len(data)))]

\* audio.rs:130-137: mono_data.  With two channels every chunk is indexed at 0 and 1,
\* and indexing a chunk of one sample at 1 panics; any other channel count passes the
\* buffer on as it is.
Downmix(data, channels) ==
    IF channels = 2
    THEN IF \E k \in DOMAIN Chunks2(data) : Len(Chunks2(data)[k]) < 2
         THEN [ok |-> FALSE, data |-> <<>>]
         ELSE [ok |-> TRUE,
               data |-> [k \in DOMAIN Chunks2(data) |->
                            Average(Chunks2(data)[k][1], Chunks2(data)[k][2])]]
    ELSE [ok |-> TRUE, data |-> data]

\* no buffer yet
NoBuffer == [ok |-> FALSE, data |-> <<>>]

NoMix ==
    /\ mix_pc = "start"
    /\ mix_channels = 1
    /\ mix_in = <<>>
    /\ mix_out = NoBuffer

----------------------------------------------------------------------------
(* Audio::resample_audio, step by step *)

\* audio.rs:140: the rate record_until_enter resamples to
TARGET_SAMPLE_RATE == 16000

\* the Audio of a device that is mono at the target rate
DefaultDevice ==
    /\ in_channels = 1
    /\ input_sample_rate = TARGET_SAMPLE_RATE

NoResample ==
    /\ rs_pc = "idle"
    /\ rs_audio_data = <<>>
    /\ target_sample_rate = TARGET_SAMPLE_RATE
    /\ ratio = Zero(FALSE)
    /\ output_length = 0
    /\ rs_i = 0
    /\ resampled = <<>>
    /\ rs_reads = {}

\* a - b on usize: with overflow checks the thread panics when b > a, without them
\* the difference wraps
UsizeSub(a, b) ==
    IF a >= b THEN {[ok |-> TRUE, v |-> a - b]}
    ELSE {[ok |-> FALSE, v |-> 0], [ok |-> TRUE, v |-> USIZE_MAX - (b - a) + 1]}

\* one more than the quotient
OutputLengthPlusOne(len, r) == AsUsize(FDiv(F64, FFromInt(F64, len), r)) + 1

\* audio.rs:89: (audio_data.len() as f64 / ratio) as usize
OutputLength(len, r) == AsUsize(FDiv(F64, FFromInt(F64, len), r))

\* the next index, not clamped
CeilIndexUnclamped(src_index_floor, last) == src_index_floor + 1

\* audio.rs:95: (src_index_floor + 1).min(audio_data.len() - 1)
CeilIndex(src_index_floor, last) == Min(src_index_floor + 1, last)

\* audio.rs:101: sample1 + (sample2 - sample1) * fraction as f32
Interpolate(sample1, sample2, fraction) ==
    FAdd(F32, sample1, FMul(F32, FSub(F32, sample2, sample1), AsF32(fraction)))

\* audio.rs:83-90: entry of resample_audio: equal rates return a copy, else the ratio
\* and the output length are computed
ResampleBegin(audio, target) ==
    /\ rs_pc \in {"idle", "done"}
    /\ rs_audio_data' = audio
    /\ target_sample_rate' = target
    /\ rs_i' = 0
    /\ rs_reads' = {}
    /\ IF input_sample_rate = target
       THEN /\ resampled' = audio
            /\ ratio' = Zero(FALSE)
            /\ output_length' = 0
            /\ rs_pc' = "done"
       ELSE LET r == FDiv(F64, FFromInt(F64, input_sample_rate), FFromInt(F64, target))
            IN  /\ ratio' = r
                /\ output_length' = OutputLength(Len(audio), r)
                /\ resampled' = <<>>
                /\ rs_pc' = "loop"

\* audio.rs:92-104: one turn of the loop.  Reading audio_data at an index that is not
\* below its length panics.
ResampleStep ==
    /\ rs_pc = "loop"
    /\ rs_i < output_length
    /\ LET len == Len(rs_audio_data)
           src_index == FMul(F64, FFromInt(F64, rs_i), ratio)
           src_index_floor == AsUsize(Floor(src_index))
           fraction == FSub(F64, src_index, FFromInt(F64, src_index_floor))
       IN  \E last \in UsizeSub(len, 1) :
              IF ~last.ok
              THEN rs_pc' = "panicked" /\ UNCHANGED <<rs_i, resampled, rs_reads>>
              ELSE LET src_index_ceil == CeilIndex(src_index_floor, last.v)
                   IN  IF src_index_floor < len
                       THEN /\ rs_reads' = rs_reads \cup {src_index_floor, src_index_ceil}
                            /\ IF src_index_ceil < len
                               THEN /\ resampled' = Append(resampled,
                                           Interpolate(rs_audio_data[src_index_floor + 1],
                                                       rs_audio_data[src_index_ceil + 1],
                                                       fraction))
                                    /\ rs_i' = rs_i + 1
                                    /\ UNCHANGED rs_pc
                               ELSE rs_pc' = "panicked" /\ UNCHANGED <<rs_i, resampled>>
                       ELSE /\ rs_i' = rs_i + 1
                            /\ UNCHANGED <<rs_pc, resampled, rs_reads>>
    /\ UNCHANGED <<rs_audio_data, target_sample_rate, ratio, output_length>>

\* audio.rs:92, 106: the range is exhausted and resampled is returned
ResampleReturn ==
    /\ rs_pc = "loop"
    /\ rs_i >= output_length
    /\ rs_pc' = "done"
    /\ UNCHANGED <<rs_audio_data, target_sample_rate, ratio, output_length, rs_i, resampled,
                   rs_reads>>

----------------------------------------------------------------------------
(* A caller of Llm::chat, as in tests::test_llm: any text, call after call *)

\* the text handed to chat: " A"
ChatInputs == {<<32, 65>>}

CallChat ==
    /\ turns < MaxTurns
    /\ \E c \in ChatInputs : ChatBegin(c)
    /\ UNCHANGED main_vars

\* transcribe has not been called
NoSttCall ==
    [by |-> "nobody", data |-> <<>>, ok |-> FALSE, text |-> <<>>,
     create_state |-> FALSE, full |-> FALSE]

InitMain ==
    /\ main_pc = "record"
    /\ audio_data = <<>>
    /\ transcription = <<>>
    /\ stt_call = NoSttCall

\* no playback session exists
NoPlayback ==
    /\ out_channels = 1
    /\ session = "none"
    /\ stream = "none"
    /\ playback_data = <<>>
    /\ playback_index = 0
    /\ finished = FALSE
    /\ cb_left = 0
    /\ device_out = <<>>
    /\ wait_pc = "none"
    /\ stop_result = "none"

\* audio.rs:111-112: the shared buffer and the flag of a new call
InitCapture ==
    /\ rec_pc = "build"
    /\ in_stream = "none"
    /\ shared_audio_data = <<>>
    /\ audio_lock = "free"
    /\ recording = TRUE
    /\ in_pc = "idle"
    /\ in_chunk = <<>>
    /\ in_i = 0
    /\ delivered = <<>>
    /\ recorded_data = <<>>
    /\ mono_data = <<>>
    /\ resampled_data = <<>>

InitChat ==
    InitLlm /\ InitMain /\ NoPlayback /\ InitCapture /\ DefaultDevice /\ NoResample /\ NoMix

NextChat ==
    \/ CallChat /\ UNCHANGED <<pb_vars, cap_vars, dsp_vars>>
    \/ FormatPrompt /\ UNCHANGED <<main_vars, pb_vars, cap_vars, dsp_vars>>
    \/ NewContext /\ UNCHANGED <<main_vars, pb_vars, cap_vars, dsp_vars>>
    \/ Prefill /\ UNCHANGED <<main_vars, pb_vars, cap_vars, dsp_vars>>
    \/ Sample /\ UNCHANGED <<main_vars, pb_vars, cap_vars, dsp_vars>>
    \/ LoopExhausted /\ UNCHANGED <<main_vars, pb_vars, cap_vars, dsp_vars>>
    \/ TokenToBytes /\ UNCHANGED <<main_vars, pb_vars, cap_vars, dsp_vars>>
    \/ WriteAll /\ UNCHANGED <<main_vars, pb_vars, cap_vars, dsp_vars>>
    \/ Flush /\ UNCHANGED <<main_vars, pb_vars, cap_vars, dsp_vars>>
    \/ Decode /\ UNCHANGED <<main_vars, pb_vars, cap_vars, dsp_vars>>
    \/ FromUtf8 /\ UNCHANGED <<main_vars, pb_vars, cap_vars, dsp_vars>>
    \/ ChatPush /\ UNCHANGED <<main_vars, pb_vars, cap_vars, dsp_vars>>

SpecChat == InitChat /\ [][NextChat]_vars

\* every step of a call is eventually taken: chat runs on the foreground thread
SpecChatFair == SpecChat /\ WF_vars(ChatStep /\ UNCHANGED <<main_vars, pb_vars, cap_vars, dsp_vars>>)

----------------------------------------------------------------------------
(* main: the conversation loop of src/main.rs *)

\* the buffers record_until_enter can return: empty, or some samples
RecordResults == {<<>>, <<1, 2>>}

\* the texts the recognition engine can return: "", " \n", " A"
TranscribeTexts == {<<>>, <<32, LF>>, <<32, 65>>}

\* main.rs:34-40: record_until_enter; on Err the loop continues
MainRecord ==
    /\ main_pc = "record"
    /\ turns < MaxTurns
    /\ \/ \E data \in RecordResults :
             /\ audio_data' = data
             /\ main_pc' = "check_empty"
       \/ UNCHANGED <<main_pc, audio_data>>
    /\ UNCHANGED <<transcription, stt_call, llm_vars>>

\* main.rs:43-46: skip the turn when nothing was recorded
MainCheckEmpty ==
    /\ main_pc = "check_empty"
    /\ main_pc' = IF audio_data = <<>> THEN "record" ELSE "transcribe"
    /\ UNCHANGED <<audio_data, transcription, stt_call, llm_vars>>

\* the buffer handed to the engine without the test for an empty one
transcribeUnchecked(data) ==
    {[ok |-> FALSE, text |-> <<>>, create_state |-> TRUE, full |-> f] : f \in BOOLEAN}
        \cup {[ok |-> TRUE, text |-> t, create_state |-> TRUE, full |-> TRUE] :
                  t \in TranscribeTexts}

\* stt.rs:15-40: Stt::transcribe, as the set of its outcomes: Err at once on an empty
\* buffer (17-19); else create_state is called (28) and may fail, else state.full is
\* called on the buffer (29) and may fail, else the text of the segments is returned
transcribe(data) ==
    IF data = <<>>
    THEN {[ok |-> FALSE, text |-> <<>>, create_state |-> FALSE, full |-> FALSE]}
    ELSE {[ok |-> FALSE, text |-> <<>>, create_state |-> TRUE, full |-> f] : f \in BOOLEAN}
             \cup {[ok |-> TRUE, text |-> t, create_state |-> TRUE, full |-> TRUE] :
                       t \in TranscribeTexts}

\* a call of transcribe by caller on data with outcome r, as stt_call records it
SttCall(caller, data, r) ==
    [by |-> caller, data |-> data, ok |-> r.ok, text |-> r.text,
     create_state |-> r.create_state, full |-> r.full]

\* main.rs:49-58: transcribe; on Err the loop continues
MainTranscribe ==
    /\ main_pc = "transcribe"
    /\ \E r \in transcribe(audio_data) :
          /\ stt_call' = SttCall("main", audio_data, r)
          /\ IF r.ok
             THEN transcription' = r.text /\ main_pc' = "gate"
             ELSE main_pc' = "record" /\ UNCHANGED transcription
    /\ UNCHANGED <<audio_data, llm_vars>>

\* main.rs:61: blank text is not sent
MainSkipBlank ==
    /\ main_pc = "gate"
    /\ Trim(transcription) = <<>>
    /\ main_pc' = "record"
    /\ UNCHANGED <<audio_data, transcription, stt_call, llm_vars>>

\* main.rs:61-62: llm.chat(&transcription) is entered
MainChat ==
    /\ main_pc = "gate"
    /\ Trim(transcription) # <<>>
    /\ ChatBegin(transcription)
    /\ main_pc' = "chat"
    /\ UNCHANGED <<audio_data, transcription, stt_call>>

\* main.rs:62: where main goes when chat returns Err
AfterChatErr == "exited"

\* main.rs:62-63: chat returned: Ok goes on to the next turn, Err leaves main through ?
MainChatReturn ==
    /\ main_pc = "chat"
    /\ \/ chat_pc = "ok" /\ main_pc' = "record"
       \/ chat_pc = "err" /\ main_pc' = AfterChatErr
    /\ UNCHANGED <<audio_data, transcription, stt_call, llm_vars>>

Init ==
    InitLlm /\ InitMain /\ NoPlayback /\ InitCapture /\ DefaultDevice /\ NoResample /\ NoMix

Next ==
    \/ MainRecord /\ UNCHANGED <<pb_vars, cap_vars, dsp_vars>>
    \/ MainCheckEmpty /\ UNCHANGED <<pb_vars, cap_vars, dsp_vars>>
    \/ MainTranscribe /\ UNCHANGED <<pb_vars, cap_vars, dsp_vars>>
    \/ MainSkipBlank /\ UNCHANGED <<pb_vars, cap_vars, dsp_vars>>
    \/ MainChat /\ UNCHANGED <<pb_vars, cap_vars, dsp_vars>>
    \/ FormatPrompt /\ UNCHANGED <<main_vars, pb_vars, cap_vars, dsp_vars>>
    \/ NewContext /\ UNCHANGED <<main_vars, pb_vars, cap_vars, dsp_vars>>
    \/ Prefill /\ UNCHANGED <<main_vars, pb_vars, cap_vars, dsp_vars>>
    \/ Sample /\ UNCHANGED <<main_vars, pb_vars, cap_vars, dsp_vars>>
    \/ LoopExhausted /\ UNCHANGED <<main_vars, pb_vars, cap_vars, dsp_vars>>
    \/ TokenToBytes /\ UNCHANGED <<main_vars, pb_vars, cap_vars, dsp_vars>>
    \/ WriteAll /\ UNCHANGED <<main_vars, pb_vars, cap_vars, dsp_vars>>
    \/ Flush /\ UNCHANGED <<main_vars, pb_vars, cap_vars, dsp_vars>>
    \/ Decode /\ UNCHANGED <<main_vars, pb_vars, cap_vars, dsp_vars>>
    \/ FromUtf8 /\ UNCHANGED <<main_vars, pb_vars, cap_vars, dsp_vars>>
    \/ ChatPush /\ UNCHANGED <<main_vars, pb_vars, cap_vars, dsp_vars>>
    \/ MainChatReturn /\ UNCHANGED <<pb_vars, cap_vars, dsp_vars>>

Spec == Init /\ [][Next]_vars

\* Stt::transcribe is public: a caller other than main hands it any buffer, empty or not
CallTranscribe ==
    /\ \E data \in RecordResults :
          \E r \in transcribe(data) : stt_call' = SttCall("caller", data, r)
    /\ UNCHANGED <<main_pc, audio_data, transcription, llm_vars>>

InitStt ==
    InitLlm /\ InitMain /\ NoPlayback /\ InitCapture /\ DefaultDevice /\ NoResample /\ NoMix

NextStt ==
    \/ Next
    \/ CallTranscribe /\ UNCHANGED <<pb_vars, cap_vars, dsp_vars>>

\* main, and next to it a caller of transcribe
SpecStt == InitStt /\ [][NextStt]_vars

----------------------------------------------------------------------------
(* One playback session: Audio::playback, the output callback, OutputStream *)

\* output_config.channels
ChannelCounts == 1..MaxChannels

\* the mono buffers handed to playback: the samples 1, 2, ..., n
PlaybackInputs == { [i \in 1..n |-> i] : n \in 0..MaxSamples }

\* audio.rs:157: flat_map(|&sample| [sample, sample])
Duplicate(a) == [i \in 1..(2 * Len(a)) |-> a[(i + 1) \div 2]]

\* audio.rs:154-161: mono to stereo when the device has two channels
Expand(a, channels) == IF channels = 2 THEN Duplicate(a) ELSE a

\* how far the device's requests are followed
MaxDeviceOut == 2 * MaxSamples + MaxSilence

InitPlayback ==
    /\ out_channels \in ChannelCounts
    /\ session = "none"
    /\ stream = "none"
    /\ playback_data = <<>>
    /\ playback_index = 0
    /\ finished = FALSE
    /\ cb_left = 0
    /\ device_out = <<>>
    /\ wait_pc = "none"
    /\ stop_result = "none"

\* the foreground thread is not inside wait
ForegroundFree == wait_pc \in {"none", "returned"}

\* audio.rs:150-192: Audio::playback; build_output_stream may fail, and a platform may
\* run the stream as soon as it is built
Playback ==
    /\ session = "none"
    /\ \/ \E a \in PlaybackInputs, st \in {"built", "playing"} :
             /\ playback_data' = Expand(a, out_channels)
             /\ playback_index' = 0
             /\ finished' = FALSE
             /\ stream' = st
             /\ session' = "live"
       \/ UNCHANGED <<playback_data, playback_index, finished, stream, session>>
    /\ UNCHANGED <<out_channels, cb_left, device_out, wait_pc, stop_result>>

\* audio.rs:17-20: OutputStream::play
Play ==
    /\ session = "live"
    /\ ForegroundFree
    /\ \/ stream' = "playing"
       \/ UNCHANGED stream
    /\ UNCHANGED <<out_channels, session, playback_data, playback_index, finished,
                   cb_left, device_out, wait_pc, stop_result>>

\* audio.rs:173-175: the device asks for n samples; the callback takes its locks
OutputCallback(n) ==
    /\ stream = "playing"
    /\ cb_left = 0
    /\ Len(device_out) + n <= MaxDeviceOut
    /\ cb_left' = n
    /\ UNCHANGED <<out_channels, session, stream, playback_data, playback_index,
                   finished, device_out, wait_pc, stop_result>>

\* a slot past the last sample written as if the buffer were one longer
SlotHasDataOffByOne(index, data) == index + 1 < Len(data)

\* audio.rs:178: *index < data.len()
SlotHasData(index, data) == index < Len(data)

\* the cursor left where it is
NextIndexStuck(index) == index

\* audio.rs:180: *index += 1
NextIndex(index) == index + 1

\* audio.rs:177-185: one turn of the callback's loop over the output slots
OutputSlot ==
    /\ cb_left > 0
    /\ cb_left' = cb_left - 1
    /\ IF SlotHasData(playback_index, playback_data)
       THEN /\ device_out' = Append(device_out, playback_data[playback_index + 1])
            /\ playback_index' = NextIndex(playback_index)
            /\ UNCHANGED finished
       ELSE /\ device_out' = Append(device_out, 0)
            /\ finished' = TRUE
            /\ UNCHANGED playback_index
    /\ UNCHANGED <<out_channels, session, stream, playback_data, wait_pc, stop_result>>

\* audio.rs:28: wait is entered
WaitBegin ==
    /\ session = "live"
    /\ wait_pc = "none"
    /\ wait_pc' = "polling"
    /\ UNCHANGED <<out_channels, session, stream, playback_data, playback_index,
                   finished, cb_left, device_out, stop_result>>

\* the loop left without looking at the flag
WaitLeavesLoopAlways(fin) == TRUE

\* audio.rs:29: the loop is left once the flag is read true
WaitLeavesLoop(fin) == fin

\* audio.rs:29-31: one reading of the flag; false sleeps 10 ms and reads again
WaitPoll ==
    /\ wait_pc = "polling"
    /\ wait_pc' = IF WaitLeavesLoop(finished) THEN "grace" ELSE "polling"
    /\ UNCHANGED <<out_channels, session, stream, playback_data, playback_index,
                   finished, cb_left, device_out, stop_result>>

\* audio.rs:33-35: the 100 ms sleep, then wait returns
WaitGrace ==
    /\ wait_pc = "grace"
    /\ wait_pc' = "returned"
    /\ UNCHANGED <<out_channels, session, stream, playback_data, playback_index,
                   finished, cb_left, device_out, stop_result>>

\* the flag left as it was
FinishedAfterStopNoStore(pause_ok, fin) == fin

\* audio.rs:23-24: the flag after stop: stored true unless pause()? returned first
FinishedAfterStop(pause_ok, fin) == IF pause_ok THEN TRUE ELSE fin

\* audio.rs:22-26: OutputStream::stop takes the session; the Stream is dropped with it
Stop ==
    /\ session = "live"
    /\ ForegroundFree
    /\ \E pause_ok \in BOOLEAN :
          /\ finished' = FinishedAfterStop(pause_ok, finished)
          /\ stop_result' = IF pause_ok THEN "ok" ELSE "err"
    /\ session' = "consumed"
    /\ stream' = "dropped"
    /\ UNCHANGED <<out_channels, playback_data, playback_index, cb_left, device_out,
                   wait_pc>>

OutputCallbackAny == \E n \in 1..MaxChunk : OutputCallback(n)

InitPlaybackSession ==
    InitLlm /\ InitMain /\ InitPlayback /\ InitCapture /\ DefaultDevice /\ NoResample /\ NoMix

NextPlayback ==
    \/ Playback /\ UNCHANGED <<main_vars, llm_vars, cap_vars, dsp_vars>>
    \/ Play /\ UNCHANGED <<main_vars, llm_vars, cap_vars, dsp_vars>>
    \/ OutputCallbackAny /\ UNCHANGED <<main_vars, llm_vars, cap_vars, dsp_vars>>
    \/ OutputSlot /\ UNCHANGED <<main_vars, llm_vars, cap_vars, dsp_vars>>
    \/ WaitBegin /\ UNCHANGED <<main_vars, llm_vars, cap_vars, dsp_vars>>
    \/ WaitPoll /\ UNCHANGED <<main_vars, llm_vars, cap_vars, dsp_vars>>
    \/ WaitGrace /\ UNCHANGED <<main_vars, llm_vars, cap_vars, dsp_vars>>
    \/ Stop /\ UNCHANGED <<main_vars, llm_vars, cap_vars, dsp_vars>>

SpecPlayback == InitPlaybackSession /\ [][NextPlayback]_vars

\* the device keeps calling the callback of a playing stream, the callback runs to its
\* end, and the thread inside wait keeps running
SpecPlaybackFair ==
    /\ SpecPlayback
    /\ WF_vars(OutputCallbackAny /\ UNCHANGED <<main_vars, llm_vars, cap_vars, dsp_vars>>)
    /\ WF_vars(OutputSlot /\ UNCHANGED <<main_vars, llm_vars, cap_vars, dsp_vars>>)
    /\ WF_vars(WaitPoll /\ UNCHANGED <<main_vars, llm_vars, cap_vars, dsp_vars>>)
    /\ WF_vars(WaitGrace /\ UNCHANGED <<main_vars, llm_vars, cap_vars, dsp_vars>>)

----------------------------------------------------------------------------
(* One call of Audio::record_until_enter, and the input callback *)

\* the j-th chunk the device delivers, of m samples: each sample names its chunk and its place
Chunk(j, m) == [i \in 1..m |-> F32Of(100 * j + i)]

\* the sample rates of the input devices
InputSampleRates == {TARGET_SAMPLE_RATE, 48000}

\* audio.rs:61-64: input_config and input_sample_rate are the device's defaults
InitDevice ==
    /\ in_channels \in ChannelCounts
    /\ input_sample_rate \in InputSampleRates

\* audio.rs:115-116, 194-219: build_input_stream; a platform may run the stream at once
RecBuild ==
    /\ rec_pc = "build"
    /\ \/ \E st \in {"built", "playing"} : in_stream' = st /\ rec_pc' = "play"
       \/ rec_pc' = "err" /\ UNCHANGED in_stream
    /\ UNCHANGED <<shared_audio_data, audio_lock, recording, in_pc, in_chunk, in_i,
                   delivered, recorded_data>>

\* audio.rs:117: stream.play()?; Err leaves the function and drops the stream
RecPlay ==
    /\ rec_pc = "play"
    /\ \/ in_stream' = "playing" /\ rec_pc' = "read_line"
       \/ in_stream' = "dropped" /\ rec_pc' = "err"
    /\ UNCHANGED <<shared_audio_data, audio_lock, recording, in_pc, in_chunk, in_i,
                   delivered, recorded_data>>

\* audio.rs:119-121: read_line returns: Enter was pressed
RecReadLine ==
    /\ rec_pc = "read_line"
    /\ rec_pc' = "store"
    /\ UNCHANGED <<in_stream, shared_audio_data, audio_lock, recording, in_pc, in_chunk,
                   in_i, delivered, recorded_data>>

\* audio.rs:124: recording.store(false)
RecStore ==
    /\ rec_pc = "store"
    /\ recording' = FALSE
    /\ rec_pc' = "drop"
    /\ UNCHANGED <<in_stream, shared_audio_data, audio_lock, in_pc, in_chunk, in_i,
                   delivered, recorded_data>>

\* audio.rs:125: the block ends and the stream is dropped
RecDrop ==
    /\ rec_pc = "drop"
    /\ in_stream' = "dropped"
    /\ rec_pc' = "snapshot"
    /\ UNCHANGED <<shared_audio_data, audio_lock, recording, in_pc, in_chunk, in_i,
                   delivered, recorded_data>>

\* the buffer read without the lock
LockAcquiredAlways(lock) == TRUE

\* audio.rs:127, 208: lock() returns once nobody holds the Mutex
LockAcquired(lock) == lock = "free"

\* audio.rs:127: audio_data.lock().unwrap().clone(); the guard lives for the statement
RecSnapshot ==
    /\ rec_pc = "snapshot"
    /\ LockAcquired(audio_lock)
    /\ recorded_data' = shared_audio_data
    /\ rec_pc' = "mix"
    /\ UNCHANGED <<in_stream, shared_audio_data, audio_lock, recording, in_pc, in_chunk,
                   in_i, delivered>>

\* audio.rs:206: the device calls the callback with its next chunk, m frames of one
\* sample per channel; dropping the stream stops the device at best effort, so a chunk
\* may still come after the drop
InputCallback(m) ==
    /\ in_stream \in {"playing", "dropped"}
    /\ in_pc = "idle"
    /\ Len(delivered) < MaxDeliveries
    /\ in_chunk' = Chunk(Len(delivered) + 1, m * in_channels)
    /\ delivered' = Append(delivered, Chunk(Len(delivered) + 1, m * in_channels))
    /\ in_i' = 0
    /\ in_pc' = "check"
    /\ UNCHANGED <<rec_pc, in_stream, shared_audio_data, audio_lock, recording,
                   recorded_data>>

\* the flag read as true whatever it is
RecordingLoadTrue(flag) == TRUE

\* audio.rs:207: recording.load(Ordering::Relaxed)
RecordingLoad(flag) == flag

\* audio.rs:207: if recording.load(..)
InputCheck ==
    /\ in_pc = "check"
    /\ in_pc' = IF RecordingLoad(recording) THEN "lock" ELSE "idle"
    /\ UNCHANGED <<rec_pc, in_stream, shared_audio_data, audio_lock, recording, in_chunk,
                   in_i, delivered, recorded_data>>

\* audio.rs:208: audio_data.lock()
InputLock ==
    /\ in_pc = "lock"
    /\ LockAcquired(audio_lock)
    /\ audio_lock' = "callback"
    /\ in_pc' = "push"
    /\ UNCHANGED <<rec_pc, in_stream, shared_audio_data, recording, in_chunk, in_i,
                   delivered, recorded_data>>

\* audio.rs:209-212: one push of the loop, or its end, where the guard is dropped
InputPush ==
    /\ in_pc = "push"
    /\ IF in_i < Len(in_chunk)
       THEN /\ shared_audio_data' = Append(shared_audio_data, in_chunk[in_i + 1])
            /\ in_i' = in_i + 1
            /\ UNCHANGED <<audio_lock, in_pc>>
       ELSE /\ audio_lock' = "free"
            /\ in_pc' = "idle"
            /\ UNCHANGED <<shared_audio_data, in_i>>
    /\ UNCHANGED <<rec_pc, in_stream, recording, in_chunk, delivered, recorded_data>>

InputCallbackAny == \E m \in 1..MaxInChunk : InputCallback(m)

\* audio.rs:129-137: the downmix; a panic ends the thread
RecMix ==
    /\ rec_pc = "mix"
    /\ LET mixed == Downmix(recorded_data, in_channels)
       IN  IF mixed.ok
           THEN mono_data' = mixed.data /\ rec_pc' = "resample"
           ELSE rec_pc' = "panicked" /\ UNCHANGED mono_data
    /\ UNCHANGED <<in_stream, shared_audio_data, audio_lock, recording, in_pc, in_chunk,
                   in_i, delivered, recorded_data, resampled_data>>

\* audio.rs:140: self.resample_audio(&mono_data, 16000) is entered
RecResample ==
    /\ rec_pc = "resample"
    /\ ResampleBegin(mono_data, TARGET_SAMPLE_RATE)
    /\ rec_pc' = "resampling"
    /\ UNCHANGED <<in_stream, shared_audio_data, audio_lock, recording, in_pc, in_chunk,
                   in_i, delivered, recorded_data, post_vars>>

\* audio.rs:140-147: resample_audio returned; record_until_enter returns Ok(resampled_data)
RecReturn ==
    /\ rec_pc = "resampling"
    /\ rs_pc = "done"
    /\ resampled_data' = resampled
    /\ rec_pc' = "ok"
    /\ UNCHANGED <<in_stream, shared_audio_data, audio_lock, recording, in_pc, in_chunk,
                   in_i, delivered, recorded_data, mono_data>>

InitCaptureCall ==
    InitLlm /\ InitMain /\ NoPlayback /\ InitCapture /\ InitDevice /\ NoResample /\ NoMix

NextCapture ==
    \/ RecBuild /\ UNCHANGED <<main_vars, llm_vars, pb_vars, dsp_vars>>
    \/ RecPlay /\ UNCHANGED <<main_vars, llm_vars, pb_vars, dsp_vars>>
    \/ RecReadLine /\ UNCHANGED <<main_vars, llm_vars, pb_vars, dsp_vars>>
    \/ RecStore /\ UNCHANGED <<main_vars, llm_vars, pb_vars, dsp_vars>>
    \/ RecDrop /\ UNCHANGED <<main_vars, llm_vars, pb_vars, dsp_vars>>
    \/ RecSnapshot /\ UNCHANGED <<main_vars, llm_vars, pb_vars, dsp_vars>>
    \/ InputCallbackAny /\ UNCHANGED <<main_vars, llm_vars, pb_vars, dsp_vars>>
    \/ InputCheck /\ UNCHANGED <<main_vars, llm_vars, pb_vars, dsp_vars>>
    \/ InputLock /\ UNCHANGED <<main_vars, llm_vars, pb_vars, dsp_vars>>
    \/ InputPush /\ UNCHANGED <<main_vars, llm_vars, pb_vars, dsp_vars>>
    \/ RecMix /\ UNCHANGED <<main_vars, llm_vars, pb_vars, dev_vars, rs_vars, mix_vars>>
    \/ RecResample /\ UNCHANGED <<main_vars, llm_vars, pb_vars, dev_vars, mix_vars>>
    \/ ResampleStep /\ UNCHANGED <<main_vars, llm_vars, pb_vars, cap_vars, post_vars, dev_vars, mix_vars>>
    \/ ResampleReturn /\ UNCHANGED <<main_vars, llm_vars, pb_vars, cap_vars, post_vars, dev_vars, mix_vars>>
    \/ RecReturn /\ UNCHANGED <<main_vars, llm_vars, pb_vars, dev_vars, rs_vars, mix_vars>>

SpecCapture == InitCaptureCall /\ [][NextCapture]_vars

----------------------------------------------------------------------------
(* A caller of Audio::resample_audio: buffers of any length, device by device *)

\* the sample rates of the devices: the target rate, two common rates, and a rate of
\* which the target is 25/7
ResampleRates == {4480, TARGET_SAMPLE_RATE, 44100, 48000}

RECURSIVE GCD(_, _)
GCD(a, b) == IF b = 0 THEN a ELSE GCD(b, a % b)

\* the least length above 0 at which len * target / rate is a whole number
Period(rate, target) == rate \div GCD(rate, target)

\* the lengths of the buffers: the short ones, and the first whole multiples of the period
ResampleLens(rate, target) ==
    (0..MaxResampleLen) \cup {k * Period(rate, target) : k \in 1..MaxPeriods}

\* a buffer of n samples: 1.0, 2.0, ..., n
Ramp(n) == [k \in 1..n |-> F32Of(k)]

CallResample ==
    \E n \in ResampleLens(input_sample_rate, TARGET_SAMPLE_RATE) :
        ResampleBegin(Ramp(n), TARGET_SAMPLE_RATE)

InitResample ==
    /\ InitLlm /\ InitMain /\ NoPlayback /\ InitCapture /\ NoResample /\ NoMix
    /\ in_channels = 1
    /\ input_sample_rate \in ResampleRates

NextResample ==
    \/ CallResample /\ UNCHANGED <<main_vars, llm_vars, pb_vars, cap_vars, post_vars, dev_vars, mix_vars>>
    \/ ResampleStep /\ UNCHANGED <<main_vars, llm_vars, pb_vars, cap_vars, post_vars, dev_vars, mix_vars>>
    \/ ResampleReturn /\ UNCHANGED <<main_vars, llm_vars, pb_vars, cap_vars, post_vars, dev_vars, mix_vars>>

SpecResample == InitResample /\ [][NextResample]_vars

----------------------------------------------------------------------------
(* The channel mixing applied to any buffer, for any channel count *)

\* the samples of the buffers: 0.0, 1.0, -0.75 and f32::MAX
MixSamples == {Zero(FALSE), F32Of(1), Canon(TRUE, <<3>>, -2), F32_MAX}

MixInputs == UNION {[1..n -> MixSamples] : n \in 0..MaxMixLen}

\* audio.rs:154-161: the expansion of playback applied to the buffer
ApplyExpand ==
    /\ mix_pc = "start"
    /\ mix_out' = [ok |-> TRUE, data |-> Expand(mix_in, mix_channels)]
    /\ mix_pc' = "expanded"
    /\ UNCHANGED <<mix_channels, mix_in>>

\* audio.rs:130-137: the downmix of record_until_enter applied to the buffer
ApplyDownmix ==
    /\ mix_pc = "start"
    /\ mix_out' = Downmix(mix_in, mix_channels)
    /\ mix_pc' = "mixed"
    /\ UNCHANGED <<mix_channels, mix_in>>

\* audio.rs:130-137: the downmix applied to what the expansion gave
ApplyDownmixExpanded ==
    /\ mix_pc = "expanded"
    /\ mix_out' = Downmix(mix_out.data, mix_channels)
    /\ mix_pc' = "round_trip"
    /\ UNCHANGED <<mix_channels, mix_in>>

InitMix ==
    /\ InitLlm /\ InitMain /\ NoPlayback /\ InitCapture /\ DefaultDevice /\ NoResample
    /\ mix_pc = "start"
    /\ mix_channels \in ChannelCounts
    /\ mix_in \in MixInputs
    /\ mix_out = NoBuffer

NextMix ==
    \/ ApplyExpand /\ UNCHANGED <<main_vars, llm_vars, pb_vars, cap_vars, post_vars, dev_vars, rs_vars>>
    \/ ApplyDownmix /\ UNCHANGED <<main_vars, llm_vars, pb_vars, cap_vars, post_vars, dev_vars, rs_vars>>
    \/ ApplyDownmixExpanded /\ UNCHANGED <<main_vars, llm_vars, pb_vars, cap_vars, post_vars, dev_vars, rs_vars>>

SpecMix == InitMix /\ [][NextMix]_vars

----------------------------------------------------------------------------
(* Properties *)

RECURSIVE Flatten(_)
\* the concatenation of a sequence of sequences
Flatten(ss) == IF ss = <<>> THEN <<>> ELSE Head(ss) \o Flatten(Tail(ss))

Range(f) == {f[i] : i \in DOMAIN f}

\* the call of chat is past its entry and has not returned
ChatRunning == ~ChatReturned

\* C1: chat is all-or-nothing on the stored messages: while a call runs and when it
\* returns Err the list is what it was when the call began; when it returns Ok the
\* list is the old list, then the User message of this turn, then the Assistant reply.
ChatAllOrNothing ==
    /\ (ChatRunning \/ chat_pc = "err") => messages = messages_before
    /\ chat_pc = "ok" =>
          /\ Len(messages) = Len(messages_before) + 2
          /\ SubSeq(messages, 1, Len(messages_before)) = messages_before
          /\ messages[Len(messages) - 1] = [role |-> RoleUser, content |-> user_message.content]
          /\ messages[Len(messages)] = [role |-> RoleAssistant, content |-> output]

\* a failed call left the list alone and the next call, which wrote output, added its two messages
ChatAllOrNothingWitness ==
    /\ chat_pc = "ok"
    /\ turns = 2
    /\ Len(messages) = 3
    /\ output # <<>>

\* C2: an error of chat ends only that turn: main does not terminate because of it.
MainSurvivesChatError == chat_pc = "err" => main_pc # "exited"

\* the generate loop is running: between the prefill and the loop's exit
InLoop == chat_pc \in {"loop", "to_bytes", "write", "flush", "decode"}

\* C3: generation terminates: a running generate loop always comes to its end, and no
\* call samples more than max_response_length tokens, end-of-sequence or not.
GenerationTerminates ==
    /\ [](Len(sampled) <= max_response_length)
    /\ (InLoop ~> ~InLoop)

\* a call that ran to the bound: every sample was a token other than end-of-sequence
GenerationTerminatesWitness ==
    /\ chat_pc = "ok"
    /\ Len(sampled) = max_response_length
    /\ token_eos \notin Range(sampled)

\* the positions of all the tokens submitted to decode, in order of submission
DecodedPositions == [i \in 1..Len(Flatten(decoded)) |-> Flatten(decoded)[i].pos]

\* C4: incremental decoding: the first batch decoded holds the n prompt tokens at
\* positions 0..n-1, the k-th batch after it holds only the k-th sampled token, at
\* position n+k-1, and so the positions decoded are 0, 1, 2, ... without gap or repeat.
IncrementalDecoding ==
    LET n == Len(tokens_list)
    IN  /\ Len(decoded) >= 1 =>
              /\ Len(decoded[1]) = n
              /\ \A i \in 1..n :
                    /\ decoded[1][i].token = tokens_list[i]
                    /\ decoded[1][i].pos = i - 1
        /\ \A k \in 1..(Len(decoded) - 1) :
              /\ Len(decoded[k + 1]) = 1
              /\ decoded[k + 1][1].token = sampled[k]
              /\ decoded[k + 1][1].pos = n + k - 1
        /\ \A j \in 1..Len(DecodedPositions) : DecodedPositions[j] = j - 1

\* a prompt of more than one token and a one-token decode after each sampled token
IncrementalDecodingWitness ==
    /\ Len(tokens_list) >= 2
    /\ Len(decoded) = 1 + max_response_length

\* C5: a sampled end-of-sequence token stops generation at once: it is the last sample
\* of the call, the loop is left, no batch is decoded for it and its bytes are neither
\* written to the sink nor added to the reply.
EosStopsGeneration ==
    \A i \in 1..Len(sampled) :
        sampled[i] = token_eos =>
            /\ i = Len(sampled)
            /\ chat_pc \in {"from_utf8", "push", "ok", "err"}
            /\ Len(decoded) = i
            /\ \A k \in 2..Len(decoded) : decoded[k][1].token # token_eos
            /\ sink = Flatten([j \in 1..(i - 1) |-> TokenBytes(sampled[j])])
            /\ output = sink
            /\ EOT_ID \notin Range(sink) \cup Range(output)

\* end-of-sequence came after a token that was written, and the call returned Ok
EosStopsGenerationWitness ==
    /\ chat_pc = "ok"
    /\ Len(sampled) = 2
    /\ sampled[2] = token_eos
    /\ sink # <<>>

\* n zeros
Zeros(n) == [i \in 1..n |-> 0]

\* C6: in a session on which stop was never called, the finished flag is true only when
\* the callback has consumed every sample of the playback buffer: the read cursor
\* equals the buffer's length and that many samples went to the device.
FinishedOnlyWhenConsumed ==
    (stop_result = "none" /\ finished) =>
        /\ playback_index = Len(playback_data)
        /\ Len(device_out) > Len(playback_data)
        /\ SubSeq(device_out, 1, Len(playback_data)) = playback_data

\* a 3-sample mono buffer on a mono device, finished after exactly 3 samples were consumed
FinishedOnlyWhenConsumedWitness ==
    /\ out_channels = 1
    /\ Len(playback_data) = 3
    /\ stop_result = "none"
    /\ finished
    /\ playback_index = 3

\* C7: the samples handed to the device are the buffer's samples in buffer order, each
\* index once, and then only zeros; the cursor stays within the buffer and never
\* decreases, and silence starts only when the buffer is exhausted.
PlaybackInOrderOnce ==
    /\ [](/\ playback_index \in 0..Len(playback_data)
          /\ Len(device_out) >= playback_index
          /\ device_out = SubSeq(playback_data, 1, playback_index)
                              \o Zeros(Len(device_out) - playback_index)
          /\ Len(device_out) > playback_index => playback_index = Len(playback_data))
    /\ [][playback_index' >= playback_index]_vars

\* a stereo session whose whole buffer went out in several callbacks, followed by silence
PlaybackInOrderOnceWitness ==
    /\ out_channels = 2
    /\ Len(playback_data) = 2 * MaxSamples
    /\ playback_index = Len(playback_data)
    /\ Len(device_out) = Len(playback_data) + 2

\* C9: wait does not return while the finished flag is false, and a wait on a playing
\* stream returns, whatever the buffer's length, when the device keeps calling the callback.
WaitReturnsWhenFinished ==
    /\ [](wait_pc \in {"grace", "returned"} => finished)
    /\ ((wait_pc = "polling" /\ stream = "playing") ~> (wait_pc = "returned"))

\* a wait on a session with an empty buffer has returned
WaitReturnsWhenFinishedWitness ==
    /\ wait_pc = "returned"
    /\ playback_data = <<>>
    /\ stop_result = "none"

RECURSIVE ChunksOf(_, _, _)
\* the chunks of ds whose index is in J, from index j on, concatenated in order
ChunksOf(ds, J, j) ==
    IF j > Len(ds) THEN <<>>
    ELSE (IF j \in J THEN ds[j] ELSE <<>>) \o ChunksOf(ds, J, j + 1)

\* C8: the snapshot of record_until_enter is a concatenation, in delivery order, of
\* whole chunks the callback was handed: none in part, none twice, none out of order.
SnapshotOfWholeChunks ==
    rec_pc = "mix" =>
        \E J \in SUBSET (1..Len(delivered)) : recorded_data = ChunksOf(delivered, J, 1)

\* the snapshot holds two chunks, and a third, whose flag check came before the flag
\* was cleared, entered the shared buffer after the snapshot
SnapshotOfWholeChunksWitness ==
    /\ rec_pc = "mix"
    /\ Len(delivered) = 3
    /\ recorded_data = delivered[1] \o delivered[2]
    /\ Len(shared_audio_data) > Len(recorded_data)

\* how many times x occurs in s
Count(s, x) == Cardinality({i \in DOMAIN s : s[i] = x})

\* the length of the block of message m: two markers around the role, two line breaks,
\* the content, the end-of-turn marker and a line break
BlockLen(m) == Len(to_str(m.role)) + Len(m.content) + 6

RECURSIVE BlockStart(_, _)
\* where the block of the k-th message of ms starts in a rendered prompt
BlockStart(ms, k) == IF k = 1 THEN 2 ELSE BlockStart(ms, k - 1) + BlockLen(ms[k - 1])

\* C11: the rendered prompt is the begin-of-text marker, one role-delimited block per
\* stored message in stored order (the System block first), the block of the pending
\* User message, and exactly one trailing assistant header that ends the text; the
\* pending message is not yet stored when the prompt is rendered, and rendering leaves
\* the stored list unchanged.
RenderedPromptStructure ==
    /\ [](prompt # <<>> =>
            LET ms == messages_before \o <<user_message>>
                n == Len(ms)
                header == <<START_HEADER_ID>> \o to_str(RoleAssistant) \o <<END_HEADER_ID, LF, LF>>
            IN  /\ prompt[1] = BEGIN_OF_TEXT
                /\ Count(prompt, BEGIN_OF_TEXT) = 1
                /\ ms[1] = MessageSystem(SYSTEM_PROMPT)
                /\ ms[n].role = RoleUser
                /\ \A k \in 1..n :
                      LET a == BlockStart(ms, k)
                          r == Len(to_str(ms[k].role))
                          c == Len(ms[k].content)
                      IN  /\ prompt[a] = START_HEADER_ID
                          /\ SubSeq(prompt, a + 1, a + r) = to_str(ms[k].role)
                          /\ SubSeq(prompt, a + r + 1, a + r + 3) = <<END_HEADER_ID, LF, LF>>
                          /\ SubSeq(prompt, a + r + 4, a + r + 3 + c) = ms[k].content
                          /\ SubSeq(prompt, a + r + c + 4, a + r + c + 5) = <<EOT_ID, LF>>
                /\ SubSeq(prompt, BlockStart(ms, n + 1), Len(prompt)) = header
                /\ Count(prompt, START_HEADER_ID) = n + 1
                /\ Count(prompt, EOT_ID) = n
                /\ ChatRunning => Len(messages) = n - 1 /\ messages = messages_before)
    /\ [][chat_pc = "format" => messages' = messages]_vars

\* the prompt of a second turn: three stored messages and the pending one
RenderedPromptStructureWitness ==
    /\ chat_pc = "new_context"
    /\ Len(messages) = 3
    /\ prompt # <<>>

\* C12: the stored messages always have the shape System, (User, Assistant)*: the first
\* is the fixed System message and the only one of that role, the list only grows by
\* appending, and what is appended is the User message of a turn immediately followed
\* by the Assistant reply of that turn.
ConversationShape ==
    /\ [](/\ Len(messages) % 2 = 1
          /\ messages[1] = MessageSystem(SYSTEM_PROMPT)
          /\ \A i \in 2..Len(messages) :
                messages[i].role = (IF i % 2 = 0 THEN RoleUser ELSE RoleAssistant))
    /\ [][\/ messages' = messages
          \/ /\ Len(messages') = Len(messages) + 2
             /\ SubSeq(messages', 1, Len(messages)) = messages
             /\ messages'[Len(messages) + 1] = user_message
             /\ messages'[Len(messages) + 2] = assistant_message]_vars

\* a successful turn, then a failed one: the list holds the first turn and nothing else
ConversationShapeWitness ==
    /\ chat_pc = "err"
    /\ turns = 2
    /\ Len(messages) = 3

\* the bytes of the first k tokens sampled in this call
SampledBytes(k) == Flatten([j \in 1..k |-> TokenBytes(sampled[j])])

\* the sampled tokens whose decode has been submitted
Submitted == IF decoded = <<>> THEN 0 ELSE Len(decoded) - 1

\* C20: streaming consistency: the bytes written and flushed to the sink during a call
\* are the bytes of the tokens accepted so far, in sampling order, and are the reply
\* accumulated so far; the bytes of a token are written and flushed before its decode
\* is submitted; and when chat returns Ok the stored Assistant content is exactly what
\* was written to the sink during that call.
StreamingConsistency ==
    /\ flushed <= Len(sink)
    /\ SubSeq(sink, 1, flushed) = output
    /\ \E a \in {Submitted, Submitted + 1} : a <= Len(sampled) /\ output = SampledBytes(a)
    /\ Len(SampledBytes(Submitted)) <= flushed
    /\ chat_pc \notin {"flush", "err"} => sink = output
    /\ chat_pc = "ok" => messages[Len(messages)] = MessageAssistant(sink)

\* a reply of one character written in two tokens, one byte each
StreamingConsistencyWitness ==
    /\ chat_pc = "ok"
    /\ sampled = <<2, 3>>
    /\ sink = <<195, 169>>

\* C13: an empty audio buffer never reaches the recognition engine: a call of
\* transcribe on an empty buffer returns Err without creating an engine state and
\* without running the engine on the buffer, and main, whose recorded buffer is empty,
\* starts the next turn without calling transcribe.
EmptyAudioNeverTranscribed ==
    /\ [](stt_call.data = <<>> =>
             /\ ~stt_call.ok
             /\ ~stt_call.create_state
             /\ ~stt_call.full)
    /\ [](stt_call.by = "main" => stt_call.data # <<>>)
    /\ [][(main_pc = "check_empty" /\ audio_data = <<>> /\ main_pc' # main_pc) =>
              (main_pc' = "record" /\ stt_call' = stt_call)]_vars

\* transcribe was called on an empty buffer while main, whose own buffer is empty, is
\* about to skip the turn
EmptyAudioNeverTranscribedWitness ==
    /\ stt_call.by = "caller"
    /\ stt_call.data = <<>>
    /\ main_pc = "check_empty"
    /\ audio_data = <<>>

\* C14, as stated: with a channel count other than 1 or 2 the channel mixing fails:
\* neither the downmix of capture nor the expansion of playback returns a sample buffer.
UnsupportedLayoutFails ==
    (mix_channels \notin {1, 2} /\ mix_pc # "start") => ~mix_out.ok

\* the expansion of m is twice as long and holds every sample of m twice in a row
IsExpansionOf(out, m) ==
    /\ Len(out) = 2 * Len(m)
    /\ \A k \in 1..Len(m) : out[2 * k - 1] = m[k] /\ out[2 * k] = m[k]

\* C15, as stated: for every mono buffer m the stereo expansion has length 2 * len(m)
\* with out[2i] = out[2i+1] = m[i], and the downmix of that expansion is m exactly.
MixRoundTrip ==
    mix_channels = 2 =>
        /\ mix_pc = "expanded" => mix_out.ok /\ IsExpansionOf(mix_out.data, mix_in)
        /\ mix_pc = "round_trip" => mix_out.ok /\ mix_out.data = mix_in

\* twice the f32 x is finite: x is finite and below 2^127 in magnitude
DoubleIsFinite(x) == x.cls = "fin" /\ BBitLen(x.m) + x.e <= F32.emax

\* C15, amended: the expansion is as stated for every mono buffer m, and the downmix of
\* the expansion is m exactly for every m whose samples are finite and below 2^127 in
\* magnitude, which every sample of the audio range [-1.0, 1.0] is.
MixRoundTripInRange ==
    mix_channels = 2 =>
        /\ mix_pc = "expanded" => mix_out.ok /\ IsExpansionOf(mix_out.data, mix_in)
        /\ (mix_pc = "round_trip" /\ \A k \in DOMAIN mix_in : DoubleIsFinite(mix_in[k])) =>
               mix_out.ok /\ mix_out.data = mix_in

\* the round trip of three samples of the audio range, not all equal
MixRoundTripInRangeWitness ==
    /\ mix_channels = 2
    /\ mix_pc = "round_trip"
    /\ mix_in = <<F32Of(1), Canon(TRUE, <<3>>, -2), Zero(FALSE)>>
    /\ mix_out.data = mix_in

\* the length of the buffer being resampled times the target rate over the input
\* rate, rounded down
FloorLen == (Len(rs_audio_data) * target_sample_rate) \div input_sample_rate

\* C16, as stated: for an input rate other than the target rate resample_audio returns
\* exactly floor(len * dst / src) samples, for every input length: the guard in the
\* loop skips no index, so the result is as long as the computed output length.
ResampleLengthIsFloor ==
    (rs_pc = "done" /\ input_sample_rate # target_sample_rate) =>
        /\ Len(resampled) = output_length
        /\ Len(resampled) = FloorLen

\* C16, amended: for an input rate other than the target rate the guard in the loop
\* skips no index and resample_audio returns exactly output_length samples, the f64
\* quotient of the length by the f64 ratio cut to a whole number; that is
\* floor(len * dst / src) or one less, and it is floor(len * dst / src) for 44100 to
\* 16000 and for 48000 to 16000.
ResampleLength ==
    input_sample_rate # target_sample_rate =>
        /\ rs_pc = "loop" => Len(resampled) = rs_i
        /\ rs_pc = "done" =>
              /\ Len(resampled) = output_length
              /\ Len(resampled) \in {FloorLen - 1, FloorLen}
              /\ input_sample_rate \in {44100, 48000} => Len(resampled) = FloorLen

\* 441 samples at 44100 Hz, where 441 * 16000 / 44100 is the whole number 160
ResampleLengthWitness ==
    /\ rs_pc = "done"
    /\ input_sample_rate = 44100
    /\ Len(rs_audio_data) = 441
    /\ Len(resampled) = 160

ResampleReadsInBounds ==
    /\ rs_pc # "panicked"
    /\ rs_reads \subseteq 0..(Len(rs_audio_data) - 1)
    /\ rs_audio_data = <<>> =>
          /\ output_length = 0
          /\ rs_i = 0
          /\ rs_reads = {}
          /\ resampled = <<>>

\* one sample at 4480 Hz gives three: every turn reads index 0, the clamped index too
ResampleReadsInBoundsWitness ==
    /\ rs_pc = "done"
    /\ input_sample_rate = 4480
    /\ Len(rs_audio_data) = 1
    /\ Len(resampled) = 3
    /\ rs_reads = {0}

\* the flag is false and no callback is past its test of the flag
Cancelled == ~recording /\ in_pc \in {"idle", "check"}

\* C19: cooperative cancel of capture: the flag stays false once cleared; a callback
\* that tests the flag after that appends nothing; the only appends after the flag
\* was cleared are those of the one callback that was past its test then, which takes
\* no other chunk before it ends; and from then on the shared buffer does not grow.
CooperativeCancel ==
    /\ [][~recording => ~recording']_vars
    /\ [][(~recording /\ in_pc = "check" /\ in_pc' # in_pc) =>
              (in_pc' = "idle" /\ shared_audio_data' = shared_audio_data)]_vars
    /\ [][(~recording /\ shared_audio_data' # shared_audio_data) =>
              /\ in_pc = "push"
              /\ in_chunk' = in_chunk
              /\ shared_audio_data' = Append(shared_audio_data, in_chunk[in_i + 1])]_vars
    /\ [][(~recording /\ in_pc \in {"lock", "push"}) =>
              (in_chunk' = in_chunk /\ delivered' = delivered)]_vars
    /\ [][Cancelled => (Cancelled' /\ shared_audio_data' = shared_audio_data)]_vars

\* the flag was cleared while a callback was between two of its pushes
CooperativeCancelWitness ==
    /\ ~recording
    /\ in_pc = "push"
    /\ in_i > 0
    /\ in_i < Len(in_chunk)

====
